---- MODULE Spec2Model ----
(***************************************************************************)
(* The handle registry and the operation bridge of the webview plugin      *)
(* (src/src/lib.rs): the thread-local identifier counter INSTANCE_INDEX,   *)
(* the thread-local map INSTANCE_MAP from identifiers to native window     *)
(* handles, and the eight operations registered by deno_plugin_init.       *)
(*                                                                         *)
(* One action per operation, plus the poll of the future that              *)
(* op_webview_get_user_data returns.  The native library (webview_sys) is  *)
(* the environment: webview_new hands out a fresh handle, webview_exit     *)
(* destroys the one it is given, webview_eval and webview_loop return a    *)
(* status the environment picks, and any call on a destroyed handle is     *)
(* undefined behaviour (any status, or the process dies).                  *)
(***************************************************************************)
EXTENDS Integers, Sequences, FiniteSets

\* ---------------------------------------------------------------- bounds

\* Width in bits of the identifier counter.  The source's counter is a u32;
\* the model keeps the arithmetic (mod 2^CounterBits) and scales the width.
CounterBits == 1

\* Windows the native library creates in one run, over all contexts.
MaxWindows == 3

\* Futures returned by op_webview_get_user_data that wait for their poll.
MaxPending == 1

\* Windows created over all contexts when several contexts run.
MaxThreadWindows == 2

\* ------------------------------------------------------------ value sets

RECURSIVE Pow2(_)
Pow2(n) == IF n = 0 THEN 1 ELSE 2 * Pow2(n - 1)

\* Number of values of the counter's type, and the type itself.
U32Modulus == Pow2(CounterBits)
U32 == 0 .. (U32Modulus - 1)

\* The execution contexts (threads) that run operations.  thread_local!
\* gives each of them its own INSTANCE_INDEX and INSTANCE_MAP.
Contexts == {"main", "worker"}

\* Rust's Option: None is the empty sequence, Some(x) a one-element one.
None == << >>
Some(x) == << x >>
IsSome(o) == Len(o) = 1
IsNone(o) == Len(o) = 0
Unwrap(o) == o[1]

\* Text fields of the requests, as byte strings.  One has an interior NUL.
NUL == 0
Texts == { <<97>>, <<97, NUL, 98>> }

\* Status codes a native call may return (c_int).
NativeStatus == {-1, 0, 1}

\* The blocking flag of the loop request (0 = non-blocking).
BlockingFlags == {0, 1}

\* A request payload whose bytes are not the JSON of the operation's params.
Malformed == [malformed |-> TRUE]

\* ------------------------------------------------------- pure functions

\* The text cut at its first NUL, the way a C string ends there.
RECURSIVE UpToNul(_)
UpToNul(text) ==
    IF text = << >> \/ Head(text) = NUL
    THEN << >>
    ELSE <<Head(text)>> \o UpToNul(Tail(text))

CString_new_truncating(text) == Some(Append(UpToNul(text), NUL))

\* CString::new(text): fails when the text has an interior NUL byte,
\* otherwise the text with the terminating NUL appended.
CString_new(text) ==
    IF \E i \in 1 .. Len(text) : text[i] = NUL
    THEN None
    ELSE Some(Append(text, NUL))

\* serde_json::from_slice(data): an error for a malformed payload, the
\* decoded params otherwise.
from_slice(data) == IF data = Malformed THEN None ELSE Some(data)

\* |&mut i| i + 1 on a u32, in a build without overflow checks.
wrapping_inc(i) == (i + 1) % U32Modulus

\* i + 1 overflows the u32: a build with overflow checks panics there.
overflows(i) == i + 1 >= U32Modulus

\* HashMap::contains_key, HashMap::get(..).unwrap() and HashMap::insert.
contains_key(m, k) == k \in DOMAIN m

get(m, k) == m[k]

\* insert under the key after the allocated one.
insert_next_key(m, k, v) ==
    [x \in (DOMAIN m) \cup {wrapping_inc(k)} |->
        IF x = wrapping_inc(k) THEN v ELSE m[x]]

insert(m, k, v) == [x \in (DOMAIN m) \cup {k} |-> IF x = k THEN v ELSE m[x]]

\* The response envelope, as each operation first builds it.
WebViewResponse == [err |-> None, ok |-> None]

\* The result payloads.  A struct with no fields is the empty tuple.
WebViewNewResult(id) == <<"id", id>>
WebViewLoopResult(code) == <<"code", code>>
EmptyResult == << >>

\* format!("Could not find instance of id {}", id)
NotFoundMessage(id) == <<"Could not find instance of id", id>>

\* The not-found branch also marks the call successful.
NotFoundResponse_ok_too(response, id) ==
    [response EXCEPT !.err = Some(NotFoundMessage(id)),
                     !.ok = Some(EmptyResult)]

NotFoundResponse(response, id) ==
    [response EXCEPT !.err = Some(NotFoundMessage(id))]

OkResponse(response, result) == [response EXCEPT !.ok = Some(result)]

\* Only a negative status counts as a failure.
EvalResponse_negative_only(response, status) ==
    IF status >= 0
    THEN [response EXCEPT !.ok = Some(EmptyResult)]
    ELSE [response EXCEPT !.err = Some(<<"Could not evaluate javascript">>)]

\* match webview_eval(instance, js) { 0 => ok, _ => err }
EvalResponse(response, status) ==
    IF status = 0
    THEN [response EXCEPT !.ok = Some(EmptyResult)]
    ELSE [response EXCEPT !.err = Some(<<"Could not evaluate javascript">>)]

\* A non-zero loop status reported as a failure, the way eval reports one.
LoopResponse_err_on_nonzero(response, code) ==
    IF code = 0
    THEN [response EXCEPT !.ok = Some(WebViewLoopResult(code))]
    ELSE [response EXCEPT !.err = Some(<<"Could not advance loop">>)]

\* response.ok = Some(WebViewLoopResult { code: webview_loop(..) })
LoopResponse(response, code) ==
    [response EXCEPT !.ok = Some(WebViewLoopResult(code))]

\* ------------------------------------------------------------- the state

VARIABLES
    INSTANCE_INDEX,  \* per context: the next identifier to hand out
    INSTANCE_MAP,    \* per context: identifier -> native window handle
    windows,         \* native library: every handle webview_new returned
    destroyed,       \* native library: handles webview_exit was called on
    issued,          \* per context: identifiers returned in a create response
    pending,         \* futures of op_webview_get_user_data not yet polled
    last,            \* the operation step just taken and how it ended
    crashed          \* the process has died (a panic, or a native crash)

vars == <<INSTANCE_INDEX, INSTANCE_MAP, windows, destroyed, issued, pending,
          last, crashed>>

\* A call into the native library: the function, the handle it is given
\* (for webview_new, the one it returns), the C string or flag passed along,
\* and the status it returns (None: it returns none, or did not return).
NoCall == [fn |-> "none", handle |-> None, text |-> None, ret |-> None]
NativeCall(fn, handle, text, ret) ==
    [fn |-> fn, handle |-> Some(handle), text |-> text, ret |-> ret]

\* How an operation step ended:
\*   "response"  the operation returned a serialized response,
\*   "pending"   the operation returned a future (Op::Async),
\*   "panic"     an unwrap() or an overflow check panicked: no response,
\*   "abort"     a native call on a destroyed handle killed the process.
\* params is the decoded request (None when decoding failed).
Step(ctx, op, params, kind, cause, response, native) ==
    [ctx |-> ctx, op |-> op, params |-> params, kind |-> kind, cause |-> cause,
     response |-> response, native |-> native]

Init ==
    /\ INSTANCE_INDEX = [c \in Contexts |-> 0]
    /\ INSTANCE_MAP = [c \in Contexts |-> << >>]
    /\ windows = {}
    /\ destroyed = {}
    /\ issued = [c \in Contexts |-> {}]
    /\ pending = << >>
    /\ last = Step("main", "init", None, "none", "none", WebViewResponse, NoCall)
    /\ crashed = FALSE

\* A panic unwinds out of the operation: the call has no response and the
\* process does not survive it.
Panic(ctx, op, params, cause) ==
    /\ last' = Step(ctx, op, params, "panic", cause, WebViewResponse, NoCall)
    /\ crashed' = TRUE

\* ------------------------------------------------------- op_webview_new

\* The handle the native library returns for its next window.
FreshHandle(ctx) == <<ctx, Cardinality({w \in windows : w[1] = ctx}) + 1>>

op_webview_new(ctx) ==
    /\ ~crashed
    /\ \E data \in {Malformed} \cup [title : Texts, url : Texts] :
        LET params == from_slice(data) IN
        IF IsNone(params)
        THEN \* line 73: from_slice(data).unwrap()
             /\ Panic(ctx, "new", None, "decode")
             /\ UNCHANGED <<INSTANCE_INDEX, INSTANCE_MAP, windows, destroyed,
                            issued, pending>>
        ELSE
        LET instance_id == INSTANCE_INDEX[ctx]
            title == CString_new(Unwrap(params).title)
            url == CString_new(Unwrap(params).url)
        IN
        \/ \* lines 76-78, the addition overflows under overflow checks
           /\ overflows(instance_id)
           /\ Panic(ctx, "new", params, "overflow")
           /\ UNCHANGED <<INSTANCE_INDEX, INSTANCE_MAP, windows, destroyed,
                          issued, pending>>
        \/ \* lines 76-78 done, then CString::new(..).unwrap() panics
           /\ IsNone(title) \/ IsNone(url)
           /\ INSTANCE_INDEX' =
                  [INSTANCE_INDEX EXCEPT ![ctx] = wrapping_inc(instance_id)]
           /\ Panic(ctx, "new", params, "nul")
           /\ UNCHANGED <<INSTANCE_MAP, windows, destroyed, issued, pending>>
        \/ \* lines 76-106
           /\ IsSome(title) /\ IsSome(url)
           /\ Cardinality(windows) < MaxWindows
           /\ LET handle == FreshHandle(ctx) IN
              /\ INSTANCE_INDEX' =
                     [INSTANCE_INDEX EXCEPT ![ctx] = wrapping_inc(instance_id)]
              /\ windows' = windows \cup {handle}
              /\ INSTANCE_MAP' =
                     [INSTANCE_MAP EXCEPT
                         ![ctx] = insert(INSTANCE_MAP[ctx], instance_id, handle)]
              /\ issued' = [issued EXCEPT ![ctx] = @ \cup {instance_id}]
              /\ last' = Step(ctx, "new", params, "response", "none",
                              OkResponse(WebViewResponse,
                                         WebViewNewResult(instance_id)),
                              NativeCall("webview_new", handle,
                                         Some(<<Unwrap(title), Unwrap(url)>>),
                                         None))
           /\ UNCHANGED <<destroyed, pending, crashed>>

\* A native call on a handle that webview_exit has destroyed is undefined
\* behaviour: it may return like any other call, or the process dies in it.
Abort(ctx, op, params, native) ==
    /\ last' = Step(ctx, op, params, "abort", "native", WebViewResponse, native)
    /\ crashed' = TRUE

\* One map for the whole process: every context reads the first one's.
SharedMap(ctx) == INSTANCE_MAP["main"]

\* INSTANCE_MAP.with(|cell| ..): the map of the context the operation runs on.
LocalMap(ctx) == INSTANCE_MAP[ctx]

\* The lookup every operation but create starts with (lines 141-144).
Found(ctx, id) == contains_key(LocalMap(ctx), id)

\* ------------------------------------------------------ op_webview_exit

op_webview_exit(ctx) ==
    /\ ~crashed
    /\ \E data \in {Malformed} \cup [id : U32] :
        LET params == from_slice(data) IN
        IF IsNone(params)
        THEN /\ Panic(ctx, "exit", None, "decode")
             /\ UNCHANGED <<INSTANCE_INDEX, INSTANCE_MAP, windows, destroyed,
                            issued, pending>>
        ELSE
        LET id == Unwrap(params).id IN
        IF ~Found(ctx, id)
        THEN /\ last' = Step(ctx, "exit", params, "response", "none",
                             NotFoundResponse(WebViewResponse, id), NoCall)
             /\ UNCHANGED <<INSTANCE_INDEX, INSTANCE_MAP, windows, destroyed,
                            issued, pending, crashed>>
        ELSE
        LET instance == get(LocalMap(ctx), id)
            native == NativeCall("webview_exit", instance, None, None)
        IN
        \/ /\ destroyed' = destroyed \cup {instance}
           /\ last' = Step(ctx, "exit", params, "response", "none",
                           OkResponse(WebViewResponse, EmptyResult), native)
           /\ UNCHANGED <<INSTANCE_INDEX, INSTANCE_MAP, windows, issued,
                          pending, crashed>>
        \/ /\ instance \in destroyed
           /\ Abort(ctx, "exit", params, native)
           /\ UNCHANGED <<INSTANCE_INDEX, INSTANCE_MAP, windows, destroyed,
                          issued, pending>>

\* ------------------------------------------------------ op_webview_eval

op_webview_eval(ctx) ==
    /\ ~crashed
    /\ \E data \in {Malformed} \cup [id : U32, js : Texts] :
        LET params == from_slice(data) IN
        IF IsNone(params)
        THEN /\ Panic(ctx, "eval", None, "decode")
             /\ UNCHANGED <<INSTANCE_INDEX, INSTANCE_MAP, windows, destroyed,
                            issued, pending>>
        ELSE
        LET id == Unwrap(params).id IN
        IF ~Found(ctx, id)
        THEN /\ last' = Step(ctx, "eval", params, "response", "none",
                             NotFoundResponse(WebViewResponse, id), NoCall)
             /\ UNCHANGED <<INSTANCE_INDEX, INSTANCE_MAP, windows, destroyed,
                            issued, pending, crashed>>
        ELSE
        LET instance == get(LocalMap(ctx), id)
            js == CString_new(Unwrap(params).js)
            native(ret) == NativeCall("webview_eval", instance, js, ret)
        IN
        IF IsNone(js)
        THEN /\ Panic(ctx, "eval", params, "nul")
             /\ UNCHANGED <<INSTANCE_INDEX, INSTANCE_MAP, windows, destroyed,
                            issued, pending>>
        ELSE
        \/ /\ \E status \in NativeStatus :
                last' = Step(ctx, "eval", params, "response", "none",
                             EvalResponse(WebViewResponse, status),
                             native(Some(status)))
           /\ UNCHANGED <<INSTANCE_INDEX, INSTANCE_MAP, windows, destroyed,
                          issued, pending, crashed>>
        \/ /\ instance \in destroyed
           /\ Abort(ctx, "eval", params, native(None))
           /\ UNCHANGED <<INSTANCE_INDEX, INSTANCE_MAP, windows, destroyed,
                          issued, pending>>

\* ------------------------------------------------- op_webview_set_color

\* The four colour channels are handed to the native call as they come and
\* take no part in the bookkeeping; the model leaves their values out.
op_webview_set_color(ctx) ==
    /\ ~crashed
    /\ \E data \in {Malformed} \cup [id : U32] :
        LET params == from_slice(data) IN
        IF IsNone(params)
        THEN /\ Panic(ctx, "set_color", None, "decode")
             /\ UNCHANGED <<INSTANCE_INDEX, INSTANCE_MAP, windows, destroyed,
                            issued, pending>>
        ELSE
        LET id == Unwrap(params).id IN
        IF ~Found(ctx, id)
        THEN /\ last' = Step(ctx, "set_color", params, "response", "none",
                             NotFoundResponse(WebViewResponse, id), NoCall)
             /\ UNCHANGED <<INSTANCE_INDEX, INSTANCE_MAP, windows, destroyed,
                            issued, pending, crashed>>
        ELSE
        LET instance == get(LocalMap(ctx), id)
            native == NativeCall("webview_set_color", instance, None, None)
        IN
        \/ /\ last' = Step(ctx, "set_color", params, "response", "none",
                           OkResponse(WebViewResponse, EmptyResult), native)
           /\ UNCHANGED <<INSTANCE_INDEX, INSTANCE_MAP, windows, destroyed,
                          issued, pending, crashed>>
        \/ /\ instance \in destroyed
           /\ Abort(ctx, "set_color", params, native)
           /\ UNCHANGED <<INSTANCE_INDEX, INSTANCE_MAP, windows, destroyed,
                          issued, pending>>

\* ------------------------------------------------- op_webview_set_title

op_webview_set_title(ctx) ==
    /\ ~crashed
    /\ \E data \in {Malformed} \cup [id : U32, title : Texts] :
        LET params == from_slice(data) IN
        IF IsNone(params)
        THEN /\ Panic(ctx, "set_title", None, "decode")
             /\ UNCHANGED <<INSTANCE_INDEX, INSTANCE_MAP, windows, destroyed,
                            issued, pending>>
        ELSE
        LET id == Unwrap(params).id IN
        IF ~Found(ctx, id)
        THEN /\ last' = Step(ctx, "set_title", params, "response", "none",
                             NotFoundResponse(WebViewResponse, id), NoCall)
             /\ UNCHANGED <<INSTANCE_INDEX, INSTANCE_MAP, windows, destroyed,
                            issued, pending, crashed>>
        ELSE
        LET instance == get(LocalMap(ctx), id)
            title == CString_new(Unwrap(params).title)
            native == NativeCall("webview_set_title", instance, title, None)
        IN
        IF IsNone(title)
        THEN /\ Panic(ctx, "set_title", params, "nul")
             /\ UNCHANGED <<INSTANCE_INDEX, INSTANCE_MAP, windows, destroyed,
                            issued, pending>>
        ELSE
        \/ /\ last' = Step(ctx, "set_title", params, "response", "none",
                           OkResponse(WebViewResponse, EmptyResult), native)
           /\ UNCHANGED <<INSTANCE_INDEX, INSTANCE_MAP, windows, destroyed,
                          issued, pending, crashed>>
        \/ /\ instance \in destroyed
           /\ Abort(ctx, "set_title", params, native)
           /\ UNCHANGED <<INSTANCE_INDEX, INSTANCE_MAP, windows, destroyed,
                          issued, pending>>

\* -------------------------------------------- op_webview_set_fullscreen

\* params.fullscreen as i32 is handed to the native call as it comes; the
\* model leaves its value out.
op_webview_set_fullscreen(ctx) ==
    /\ ~crashed
    /\ \E data \in {Malformed} \cup [id : U32] :
        LET params == from_slice(data) IN
        IF IsNone(params)
        THEN /\ Panic(ctx, "set_fullscreen", None, "decode")
             /\ UNCHANGED <<INSTANCE_INDEX, INSTANCE_MAP, windows, destroyed,
                            issued, pending>>
        ELSE
        LET id == Unwrap(params).id IN
        IF ~Found(ctx, id)
        THEN /\ last' = Step(ctx, "set_fullscreen", params, "response",
                             "none", NotFoundResponse(WebViewResponse, id),
                             NoCall)
             /\ UNCHANGED <<INSTANCE_INDEX, INSTANCE_MAP, windows, destroyed,
                            issued, pending, crashed>>
        ELSE
        LET instance == get(LocalMap(ctx), id)
            native == NativeCall("webview_set_fullscreen", instance, None, None)
        IN
        \/ /\ last' = Step(ctx, "set_fullscreen", params, "response", "none",
                           OkResponse(WebViewResponse, EmptyResult), native)
           /\ UNCHANGED <<INSTANCE_INDEX, INSTANCE_MAP, windows, destroyed,
                          issued, pending, crashed>>
        \/ /\ instance \in destroyed
           /\ Abort(ctx, "set_fullscreen", params, native)
           /\ UNCHANGED <<INSTANCE_INDEX, INSTANCE_MAP, windows, destroyed,
                          issued, pending>>

\* ------------------------------------------------------ op_webview_loop

\* The entry of a window is dropped from the map once its loop step
\* reports a non-zero status.
op_webview_loop_dropping_entry(ctx) ==
    /\ ~crashed
    /\ \E id \in DOMAIN LocalMap(ctx), blocking \in BlockingFlags,
          code \in NativeStatus :
        LET instance == get(LocalMap(ctx), id)
            kept == IF code = 0 THEN DOMAIN LocalMap(ctx)
                    ELSE (DOMAIN LocalMap(ctx)) \ {id}
        IN
        /\ instance \notin destroyed
        /\ INSTANCE_MAP' =
               [INSTANCE_MAP EXCEPT ![ctx] = [k \in kept |-> LocalMap(ctx)[k]]]
        /\ last' = Step(ctx, "loop", Some([id |-> id, blocking |-> blocking]),
                        "response", "none",
                        [WebViewResponse EXCEPT
                            !.ok = Some(WebViewLoopResult(code))],
                        NativeCall("webview_loop", instance, Some(blocking),
                                   Some(code)))
        /\ UNCHANGED <<INSTANCE_INDEX, windows, destroyed, issued, pending,
                       crashed>>

\* The native call's text slot carries the blocking flag it was given.
op_webview_loop(ctx) ==
    /\ ~crashed
    /\ \E data \in {Malformed} \cup [id : U32, blocking : BlockingFlags] :
        LET params == from_slice(data) IN
        IF IsNone(params)
        THEN /\ Panic(ctx, "loop", None, "decode")
             /\ UNCHANGED <<INSTANCE_INDEX, INSTANCE_MAP, windows, destroyed,
                            issued, pending>>
        ELSE
        LET id == Unwrap(params).id IN
        IF ~Found(ctx, id)
        THEN /\ last' = Step(ctx, "loop", params, "response", "none",
                             NotFoundResponse(WebViewResponse, id), NoCall)
             /\ UNCHANGED <<INSTANCE_INDEX, INSTANCE_MAP, windows, destroyed,
                            issued, pending, crashed>>
        ELSE
        LET instance == get(LocalMap(ctx), id)
            native(ret) == NativeCall("webview_loop", instance,
                                      Some(Unwrap(params).blocking), ret)
        IN
        \/ /\ \E code \in NativeStatus :
                last' = Step(ctx, "loop", params, "response", "none",
                             LoopResponse(WebViewResponse, code),
                             native(Some(code)))
           /\ UNCHANGED <<INSTANCE_INDEX, INSTANCE_MAP, windows, destroyed,
                          issued, pending, crashed>>
        \/ /\ instance \in destroyed
           /\ Abort(ctx, "loop", params, native(None))
           /\ UNCHANGED <<INSTANCE_INDEX, INSTANCE_MAP, windows, destroyed,
                          issued, pending>>

\* --------------------------------------------- op_webview_get_user_data

\* The future the operation returns: the decoded params and the response
\* it has built so far, moved into the async block (line 387).  The last
\* field is history: whether the map held the identifier when the
\* operation was dispatched.  The code keeps no such thing.
Future(ctx, params, response) ==
    [ctx |-> ctx, params |-> params, response |-> response,
     found_at_dispatch |-> Found(ctx, params.id)]

\* Lines 379-402: decode, build the future, return Op::Async.  Nothing of
\* the async block has run yet.
op_webview_get_user_data(ctx) ==
    /\ ~crashed
    /\ \E data \in {Malformed} \cup [id : U32] :
        LET params == from_slice(data) IN
        IF IsNone(params)
        THEN /\ Panic(ctx, "get_user_data", None, "decode")
             /\ UNCHANGED <<INSTANCE_INDEX, INSTANCE_MAP, windows, destroyed,
                            issued, pending>>
        ELSE
        LET id == Unwrap(params).id IN
        /\ Len(pending) < MaxPending
        /\ pending' = Append(pending, Future(ctx, Unwrap(params), WebViewResponse))
        /\ last' = Step(ctx, "get_user_data", params, "pending", "none",
                        WebViewResponse, NoCall)
        /\ UNCHANGED <<INSTANCE_INDEX, INSTANCE_MAP, windows, destroyed,
                       issued, crashed>>

\* The future stays with the host after its poll.
Remove_nothing(seq, i) == seq

\* A future that has completed is dropped by the host.
Remove(seq, i) == [j \in 1 .. (Len(seq) - 1) |-> IF j < i THEN seq[j] ELSE seq[j + 1]]

\* The lookup done where the operation is dispatched, before the async
\* block, and its outcome moved into the future.
PollResponse_decided_at_dispatch(fut) ==
    IF ~fut.found_at_dispatch
    THEN NotFoundResponse(fut.response, fut.params.id)
    ELSE OkResponse(fut.response, EmptyResult)

\* Lines 388-397: the body of the async block, run by the poll.
PollResponse(fut) ==
    IF ~Found(fut.ctx, fut.params.id)
    THEN NotFoundResponse(fut.response, fut.params.id)
    ELSE OkResponse(fut.response, EmptyResult)

\* Lines 388-399: the host polls the future on the context that owns it;
\* the async block runs to its end in that one poll.
poll_get_user_data(ctx) ==
    /\ ~crashed
    /\ \E i \in 1 .. Len(pending) :
        LET fut == pending[i]
            id == fut.params.id
        IN
        /\ fut.ctx = ctx
        /\ pending' = Remove(pending, i)
        /\ last' = Step(ctx, "get_user_data_poll", Some(fut.params), "response", "none",
                        PollResponse(fut), NoCall)
        /\ UNCHANGED <<INSTANCE_INDEX, INSTANCE_MAP, windows, destroyed,
                       issued, crashed>>

\* --------------------------------------------------- the specifications

\* The host runs one operation, or polls one future, on the context that
\* drives the plugin.  Nothing runs once the process has died.
Next ==
    \E ctx \in {"main"} :
        \/ op_webview_new(ctx)
        \/ op_webview_exit(ctx)
        \/ op_webview_eval(ctx)
        \/ op_webview_set_color(ctx)
        \/ op_webview_set_title(ctx)
        \/ op_webview_set_fullscreen(ctx)
        \/ op_webview_loop(ctx)
        \/ op_webview_get_user_data(ctx)
        \/ poll_get_user_data(ctx)

\* One context drives the plugin.
Spec == Init /\ [][Next]_vars

\* What keeps the interleavings of several contexts within reach: the
\* windows created over all contexts, and one future in flight at a time.
\* How many futures wait changes nothing about the map a lookup reads.
ThreadLimit ==
    /\ Cardinality(windows) <= MaxThreadWindows
    /\ Len(pending) <= 1

\* Every context of the process runs operations and polls its own futures,
\* in any interleaving.
NextThreads ==
    \E ctx \in Contexts :
        \/ op_webview_new(ctx) /\ ThreadLimit'
        \/ op_webview_exit(ctx) /\ ThreadLimit'
        \/ op_webview_eval(ctx) /\ ThreadLimit'
        \/ op_webview_set_color(ctx) /\ ThreadLimit'
        \/ op_webview_set_title(ctx) /\ ThreadLimit'
        \/ op_webview_set_fullscreen(ctx) /\ ThreadLimit'
        \/ op_webview_loop(ctx) /\ ThreadLimit'
        \/ op_webview_get_user_data(ctx) /\ ThreadLimit'
        \/ poll_get_user_data(ctx) /\ ThreadLimit'

\* Several contexts drive the plugin.
SpecThreads == Init /\ [][NextThreads]_vars

\* ------------------------------------------------------------ the claims

\* The operations that start with the registry lookup.  For the
\* asynchronous one the lookup runs when its future is polled.
LookupOps == {"exit", "eval", "set_color", "set_title", "set_fullscreen",
              "loop", "get_user_data_poll"}

\* The last step ran a lookup operation whose request decoded.
LookupStep == last.op \in LookupOps /\ IsSome(last.params)

\* The identifier the last step's request names.
LastId == Unwrap(last.params).id

\* The last step made a call into the native library.
Called == last.native.fn # "none"

\* C1: a non-create operation whose identifier no create on its context has
\* returned ends with a response that has err set and ok absent, and makes
\* no native call.
C1_UnknownIdIsRejected ==
    (LookupStep /\ LastId \notin issued[last.ctx]) =>
        /\ last.kind = "response"
        /\ IsSome(last.response.err)
        /\ IsNone(last.response.ok)
        /\ ~Called

\* A window exists, and an operation names an identifier that was never
\* returned: it is answered with the not-found message for that identifier.
C1_Witness ==
    /\ LookupStep
    /\ issued[last.ctx] # {}
    /\ LastId \notin issued[last.ctx]
    /\ last.response.err = Some(NotFoundMessage(LastId))

\* C2: once webview_exit has been called on a handle, no later operation
\* passes that handle to a native call.
C2_NoCallOnExitedHandle ==
    [][(last'.native.fn \notin {"none", "webview_new"})
          => Unwrap(last'.native.handle) \notin destroyed]_vars

\* The handles a context's map holds.
Handles(ctx) == {INSTANCE_MAP[ctx][k] : k \in DOMAIN INSTANCE_MAP[ctx]}

\* C3: a handle is in the map exactly when its window has been created and
\* not exited.
C3_MapHoldsExactlyLiveWindows ==
    \A ctx \in Contexts :
        Handles(ctx) = {w \in windows : w[1] = ctx /\ w \notin destroyed}

\* C4: the identifier a create returns is greater than every identifier
\* an earlier create on that context returned.
C4_CreateIdsStrictlyIncrease ==
    [][(last'.op = "new" /\ last'.kind = "response")
          => \A m \in issued[last'.ctx] :
                 m < Unwrap(last'.response.ok)[2]]_vars

\* C5: every call of every operation produces a response (or, for the
\* asynchronous operation, the future that produces it): no call ends in a
\* panic or takes the process down.
C5_EveryCallResponds == last.kind \in {"none", "response", "pending"}

\* C6: a response has exactly one of ok and err, and a success without a
\* result value has ok present and empty.
C6_ExactlyOneOfOkErr ==
    last.kind = "response" =>
        /\ IsSome(last.response.ok) # IsSome(last.response.err)
        /\ (IsSome(last.response.ok) /\ last.op \notin {"new", "loop"})
               => last.response.ok = Some(EmptyResult)

\* A window's colour is set: the response has ok present and empty, and
\* no err.
C6_Witness ==
    /\ last.op = "set_color"
    /\ last.kind = "response"
    /\ last.response.ok = Some(EmptyResult)
    /\ IsNone(last.response.err)

\* C7: a call that dies of a decode error or of a text with a NUL leaves
\* the counter, the map and the native handles as they were.
C7_FailedCallLeavesRegistry ==
    [][(last'.kind = "panic" /\ last'.cause \in {"decode", "nul"})
          => /\ INSTANCE_INDEX' = INSTANCE_INDEX
             /\ INSTANCE_MAP' = INSTANCE_MAP
             /\ windows' = windows
             /\ destroyed' = destroyed]_vars

\* C8: allocate never fails, and the identifier it will return next is
\* greater than every identifier issued so far.
C8_AllocateAlwaysFresh ==
    /\ ~(last.kind = "panic" /\ last.cause = "overflow")
    /\ \A ctx \in Contexts :
           \A m \in issued[ctx] : m < INSTANCE_INDEX[ctx]

\* C9: a non-blocking loop step on a window that is created and not exited
\* is answered ok with the code the native step returned, never err.
C9_LoopPassesCodeThrough ==
    (/\ LookupStep
     /\ last.op = "loop"
     /\ Unwrap(last.params).blocking = 0
     /\ Found(last.ctx, LastId)
     /\ get(INSTANCE_MAP[last.ctx], LastId) \notin destroyed)
    => /\ last.kind = "response"
       /\ IsNone(last.response.err)
       /\ Called /\ IsSome(last.native.ret)
       /\ last.response.ok = Some(WebViewLoopResult(Unwrap(last.native.ret)))

\* The native step reported a non-zero status and the response carries it.
C9_Witness ==
    /\ LookupStep
    /\ last.op = "loop"
    /\ Unwrap(last.params).blocking = 0
    /\ Found(last.ctx, LastId)
    /\ get(INSTANCE_MAP[last.ctx], LastId) \notin destroyed
    /\ last.response.ok = Some(WebViewLoopResult(-1))

\* The last step is an eval whose native call returned a status.
EvalReturned ==
    /\ last.op = "eval"
    /\ last.kind = "response"
    /\ Called
    /\ IsSome(last.native.ret)

\* An eval's response is ok (empty) for status 0, and err with this
\* message for any other status.
EvalAnswers(message) ==
    EvalReturned =>
        IF Unwrap(last.native.ret) = 0
        THEN /\ last.response.ok = Some(EmptyResult)
             /\ IsNone(last.response.err)
        ELSE /\ last.response.err = Some(message)
             /\ IsNone(last.response.ok)

\* C10 as the specification words it: the message is
\* "could not evaluate script".
C10_EvalErrIsCouldNotEvaluateScript ==
    EvalAnswers(<<"could not evaluate script">>)

\* C10, amended: the message is "Could not evaluate javascript".
C10_EvalErrIsCouldNotEvaluateJavascript ==
    EvalAnswers(<<"Could not evaluate javascript">>)

\* The native evaluator rejected a script on a live window.
C10_Witness ==
    /\ EvalReturned
    /\ Unwrap(last.native.handle) \notin destroyed
    /\ Unwrap(last.native.ret) = 1
    /\ IsSome(last.response.err)

\* C11: an exit on an identifier whose window an earlier exit has already
\* destroyed returns a response, makes no native call, and leaves the map
\* and the counter as they were.
C11_SecondExitIsHarmless ==
    [][(/\ last'.op = "exit"
        /\ IsSome(last'.params)
        /\ Found(last'.ctx, Unwrap(last'.params).id)
        /\ get(INSTANCE_MAP[last'.ctx], Unwrap(last'.params).id) \in destroyed)
          => /\ last'.kind = "response"
             /\ last'.native.fn = "none"
             /\ INSTANCE_MAP' = INSTANCE_MAP
             /\ INSTANCE_INDEX' = INSTANCE_INDEX]_vars

\* C12: two create calls run on two different contexts of the process never
\* return the same identifier.
C12_IdsUniqueAcrossContexts ==
    \A c1, c2 \in Contexts : c1 # c2 => issued[c1] \cap issued[c2] = {}

\* C13: under any interleaving of the contexts, a context's map resolves
\* identifiers only to handles that context created, and every native call
\* runs on the context that created the handle it is given.
C13_NoCrossContextHandle ==
    /\ \A ctx \in Contexts : \A h \in Handles(ctx) : h[1] = ctx
    /\ (Called /\ IsSome(last.native.handle))
          => Unwrap(last.native.handle)[1] = last.ctx

\* A context made a native call through an identifier that another context
\* holds too, for a window of its own.
C13_Witness ==
    /\ LookupStep /\ Called /\ IsSome(last.native.handle)
    /\ last.ctx = "worker"
    /\ Found("main", LastId)
    /\ get(INSTANCE_MAP["main"], LastId) # Unwrap(last.native.handle)

\* The texts the last step's decoded request carries.
LastTexts ==
    IF IsNone(last.params) THEN {}
    ELSE IF last.op = "new"
         THEN {Unwrap(last.params).title, Unwrap(last.params).url}
    ELSE IF last.op = "eval" THEN {Unwrap(last.params).js}
    ELSE IF last.op = "set_title" THEN {Unwrap(last.params).title}
    ELSE {}

HasNul(text) == \E i \in 1 .. Len(text) : text[i] = NUL

\* The last step's request carries a text with an interior NUL.
NulStep == \E text \in LastTexts : HasNul(text)

\* C14 as stated: a create, eval or set-title whose text has an interior
\* NUL ends as a fatal failure of the call whatever its identifier, and
\* makes no native call.
C14_NulTextIsAlwaysFatal ==
    NulStep => (last.kind = "panic" /\ ~Called)

\* C14, amended: such a call makes no native call; it ends as a fatal
\* failure when it is a create or names an identifier the map holds, and
\* with the not-found response when it names an identifier the map lacks.
C14_NulTextIsFatalOnceFound ==
    NulStep =>
        /\ ~Called
        /\ IF last.op = "new" \/ Found(last.ctx, LastId)
           THEN last.kind = "panic"
           ELSE /\ last.kind = "response"
                /\ last.response =
                       NotFoundResponse(WebViewResponse, LastId)

\* A set-title with a NUL in its title, on a window the map holds, has
\* panicked.
C14_Witness ==
    /\ NulStep
    /\ last.op = "set_title"
    /\ Found(last.ctx, LastId)
    /\ last.kind = "panic"
    /\ last.cause = "nul"

\* C15: an identifier the map holds keeps resolving to the same handle: no
\* step overwrites an entry with another window's handle.
C15_EntriesAreNeverOverwritten ==
    [][\A ctx \in Contexts :
          \A id \in DOMAIN INSTANCE_MAP[ctx] :
              id \in DOMAIN INSTANCE_MAP'[ctx]
                  => INSTANCE_MAP'[ctx][id] = INSTANCE_MAP[ctx][id]]_vars

\* C18: every key of the map is below the counter, the first identifier is
\* 0, and a create that has returned N has left N in the map and the
\* counter at N + 1.
C18_KeysBelowCounter ==
    /\ \A ctx \in Contexts :
           /\ \A id \in DOMAIN INSTANCE_MAP[ctx] : id < INSTANCE_INDEX[ctx]
           /\ (issued[ctx] # {}) => 0 \in issued[ctx]
    /\ (last.op = "new" /\ last.kind = "response") =>
           LET N == Unwrap(last.response.ok)[2] IN
           /\ N \in DOMAIN INSTANCE_MAP[last.ctx]
           /\ INSTANCE_INDEX[last.ctx] = N + 1

\* The step from the unprimed to the primed state is the poll of the i-th
\* pending future.
PollOf(i) ==
    /\ last'.op = "get_user_data_poll"
    /\ last'.ctx = pending[i].ctx
    /\ last'.params = Some(pending[i].params)
    /\ pending' = Remove(pending, i)

\* C16: the dispatch of fetch-associated-data and the poll of its future
\* make no native call and change neither the map nor the counter; the
\* poll ends with a response and the future is gone after it.
C16_FetchCompletesAtFirstPoll ==
    [][(IsSome(last'.params)
          /\ last'.op \in {"get_user_data", "get_user_data_poll"})
          => /\ last'.native = NoCall
             /\ INSTANCE_MAP' = INSTANCE_MAP
             /\ INSTANCE_INDEX' = INSTANCE_INDEX
             /\ IF last'.op = "get_user_data"
                THEN /\ last'.kind = "pending"
                     /\ Len(pending') = Len(pending) + 1
                ELSE /\ last'.kind = "response"
                     /\ Len(pending') = Len(pending) - 1
                     /\ \E i \in 1 .. Len(pending) : PollOf(i)]_vars

\* A future has been polled: its response is there and nothing is pending.
C16_Witness ==
    /\ last.op = "get_user_data_poll"
    /\ last.kind = "response"
    /\ IsSome(last.response.ok)
    /\ pending = << >>

\* C17: the poll answers by the map as it is at the poll.  A future
\* dispatched while the map lacked its identifier is answered ok when a
\* create has put the identifier in the map before the poll.
C17_OutcomeDecidedAtPoll ==
    [][\A i \in 1 .. Len(pending) :
          PollOf(i) =>
              /\ last'.kind = "response"
              /\ last'.response =
                     IF contains_key(INSTANCE_MAP[pending[i].ctx],
                                     pending[i].params.id)
                     THEN OkResponse(WebViewResponse, EmptyResult)
                     ELSE NotFoundResponse(WebViewResponse,
                                           pending[i].params.id)]_vars

\* A future dispatched for an identifier the map lacked is still pending,
\* and a create has since put that identifier in the map.
C17_Witness ==
    \E i \in 1 .. Len(pending) :
        /\ ~pending[i].found_at_dispatch
        /\ contains_key(INSTANCE_MAP[pending[i].ctx], pending[i].params.id)
        /\ last.op = "new"
        /\ last.response.ok = Some(WebViewNewResult(pending[i].params.id))

\* The operations C19 names.
FrameOps == {"eval", "set_color", "set_title", "set_fullscreen", "loop",
             "get_user_data", "get_user_data_poll"}

\* C19: eval, set-color, set-title, set-fullscreen, advance-loop and
\* fetch-associated-data leave the map and the counter unchanged however
\* they end, and only a create changes the counter.
C19_OnlyCreateChangesRegistry ==
    [][/\ last'.op \in FrameOps
          => /\ INSTANCE_MAP' = INSTANCE_MAP
             /\ INSTANCE_INDEX' = INSTANCE_INDEX
       /\ INSTANCE_INDEX' # INSTANCE_INDEX => last'.op = "new"]_vars

\* An eval on a window the map holds: the native evaluator has rejected
\* the script, and the window's entry is still there.
C19_Witness ==
    /\ last.op = "eval"
    /\ last.kind = "response"
    /\ IsSome(last.response.err)
    /\ Called
    /\ Found(last.ctx, LastId)

====
